---- MODULE Spec2Model ----
(***************************************************************************)
(* A model of micrograd's scalar autodiff engine (micrograd/value.py) and  *)
(* of the training loop built on it (micrograd/mlp.py, t.py).              *)
(*                                                                         *)
(* Objects of class Value live in `heap`, a sequence indexed by allocation *)
(* order; a reference to a Value is its index.  Python floats are modelled *)
(* by integers: every identity checked below is an identity of ring        *)
(* arithmetic (sums and products), which integers decide exactly.          *)
(***************************************************************************)
EXTENDS Integers, Sequences, FiniteSets, TLC

\* ---------------------------------------------------------------- bounds
MaxNodes == 4          \* Value objects allocated in one run
MaxCalls == 2          \* calls of backprop in one run
Vals == {-1, 2}        \* values a client gives to fresh leaves
Floats == {3}          \* plain floats a client passes to an operator
Exponents == {2}       \* exponents a client passes to **
Labels == {"0", "x"}   \* labels a client gives
TanhBound == 2         \* the integer stand-in of tanh clips to [-TanhBound, TanhBound]
n_epochs == 2          \* epochs main runs (1000 in t.py)
ParamVals == {-1, 1}   \* outcomes of random.uniform(-1, 1) for a parameter

VARIABLES
    heap,      \* the Value objects: records val, label, grad, children, op, backward
    pc,        \* where the client is: "idle", or inside backprop
    self,      \* backprop: the root it was called on
    topo,      \* backprop: the list `topo`
    visited,   \* backprop: the set `visited`
    stack,     \* backprop: the activation records of build_topo, innermost last
    i,         \* backprop: index of the next element of reversed(topo)
    calls,     \* number of completed backprop calls
    before,    \* history: every node's grad when the running/last backprop was called
    ran,       \* history: nodes whose backward() the running backprop has invoked
    ret,       \* history: the last builder call and the Value it returned
    main       \* t.py's main: where it is, its net, its data, its current loss

vars == <<heap, pc, self, topo, visited, stack, i, calls, before, ran, ret, main>>

\* ------------------------------------------------------------ the objects
None == "None"

Ids == 1..Len(heap)

\* Value.__init__: grad 0.0, a private copy of children, the default backward
Value(val, label, children, op) ==
    [val |-> val, label |-> label, grad |-> 0, children |-> children, op |-> op,
     backward |-> [fn |-> None, self |-> 0, other |-> 0]]

\* An argument of an operator: a Value (by reference) or a plain float.
Ref(id) == [isValue |-> TRUE, id |-> id, x |-> 0]
Float(x) == [isValue |-> FALSE, id |-> 0, x |-> x]

\* `other = other if isinstance(other, Value) else Value(other)`
Promote(h, other) ==
    IF other.isValue
    THEN [heap |-> h, out |-> other.id]
    ELSE [heap |-> Append(h, Value(other.x, None, {}, None)), out |-> Len(h) + 1]

\* Value.__add__: returns the heap with the new objects and the result's reference
__add__(h, slf, other) ==
    LET p == Promote(h, other)
        o == p.out
        out == [Value(p.heap[slf].val + p.heap[o].val, None, {slf, o}, "add")
                  EXCEPT !.backward = [fn |-> "add", self |-> slf, other |-> o]]
    IN [heap |-> Append(p.heap, out), out |-> Len(p.heap) + 1]

\* Value.__mul__
__mul__(h, slf, other) ==
    LET p == Promote(h, other)
        o == p.out
        out == [Value(p.heap[slf].val * p.heap[o].val, None, {slf, o}, "mul")
                  EXCEPT !.backward = [fn |-> "mul", self |-> slf, other |-> o]]
    IN [heap |-> Append(p.heap, out), out |-> Len(p.heap) + 1]

\* Python's abs() of a float
abs(x) == IF x < 0 THEN -x ELSE x

\* Value.__abs__
__abs__(h, slf) ==
    LET out == [Value(abs(h[slf].val), None, {slf}, "abs")
                  EXCEPT !.backward = [fn |-> "abs", self |-> slf, other |-> 0]]
    IN [heap |-> Append(h, out), out |-> Len(h) + 1]

\* Python's x ** k for a whole k >= 0
RECURSIVE Power(_, _)
Power(x, k) == IF k = 0 THEN 1 ELSE x * Power(x, k - 1)

\* Value.__pow__: `other` is a plain float, kept by the closure
__pow__(h, slf, other) ==
    LET out == [Value(Power(h[slf].val, other), None, {slf}, "pow")
                  EXCEPT !.backward = [fn |-> "pow", self |-> slf, other |-> other]]
    IN [heap |-> Append(h, out), out |-> Len(h) + 1]

\* Value.__neg__: self * -1
__neg__(h, slf) == __mul__(h, slf, Float(-1))

\* Value.__sub__: self + (-other); the negation of a float is a float
__sub__(h, slf, other) ==
    IF other.isValue
    THEN LET n == __neg__(h, other.id) IN __add__(n.heap, slf, Ref(n.out))
    ELSE __add__(h, slf, Float(-other.x))

\* Value.__rsub__, which Python calls for `other - self` with a float `other`:
\* its body is `self - other`
__rsub__(h, slf, other) == __sub__(h, slf, other)

\* Value.__or__: self.label = other
__or__(h, slf, other) == [heap |-> [h EXCEPT ![slf].label = other], out |-> slf]

\* math.tanh.  The integers have nothing strictly between 0 and 1, so no
\* integer function has tanh's range; the stand-in keeps that tanh is odd,
\* monotone, bounded and the identity near 0: it clips to [-TanhBound, TanhBound].
tanh(x) == IF x > TanhBound THEN TanhBound ELSE IF x < -TanhBound THEN -TanhBound ELSE x

\* Value.tanh: the closure keeps `val`
Value_tanh(h, slf) ==
    LET val == tanh(h[slf].val)
        out == [Value(val, None, {slf}, "tanh")
                  EXCEPT !.backward = [fn |-> "tanh", self |-> slf, other |-> val]]
    IN [heap |-> Append(h, out), out |-> Len(h) + 1]

\* Value.__radd__: self + other
__radd__(h, slf, other) == __add__(h, slf, other)

\* ------------------------------------------------- the backward closures
\* __add__.backward:  self.grad += out.grad; other.grad += out.grad
add_backward(h, out) ==
    LET b == h[out].backward
        h1 == [h EXCEPT ![b.self].grad = @ + h[out].grad]
    IN [h1 EXCEPT ![b.other].grad = @ + h1[out].grad]

\* variant of mul_backward: each operand is scaled by its own value
mul_backward_own_val(h, out) ==
    LET b == h[out].backward
        h1 == [h EXCEPT ![b.self].grad = @ + h[b.self].val * h[out].grad]
    IN [h1 EXCEPT ![b.other].grad = @ + h1[b.other].val * h1[out].grad]

\* __mul__.backward:  self.grad += other.val * out.grad; other.grad += self.val * out.grad
mul_backward(h, out) ==
    LET b == h[out].backward
        h1 == [h EXCEPT ![b.self].grad = @ + h[b.other].val * h[out].grad]
    IN [h1 EXCEPT ![b.other].grad = @ + h1[b.self].val * h1[out].grad]

\* __abs__.backward: tests out.val, and assigns
abs_backward(h, out) ==
    LET b == h[out].backward
    IN IF h[out].val > 0 THEN [h EXCEPT ![b.self].grad = h[out].grad]
       ELSE IF h[out].val < 0 THEN [h EXCEPT ![b.self].grad = -h[out].grad]
       ELSE h

\* __pow__.backward:  self.grad += other * self.val ** (other - 1) * out.grad
pow_backward(h, out) ==
    LET b == h[out].backward
    IN [h EXCEPT ![b.self].grad =
            @ + b.other * Power(h[b.self].val, b.other - 1) * h[out].grad]

\* Value.tanh.backward:  self.grad += (1 - val**2) * out.grad
tanh_backward(h, out) ==
    LET b == h[out].backward
    IN [h EXCEPT ![b.self].grad = @ + (1 - b.other * b.other) * h[out].grad]

\* n.backward(): the closure installed on n (`lambda: None` on a leaf)
backward(h, n) ==
    LET fn == h[n].backward.fn
    IN IF fn = "add" THEN add_backward(h, n)
       ELSE IF fn = "mul" THEN mul_backward(h, n)
       ELSE IF fn = "abs" THEN abs_backward(h, n)
       ELSE IF fn = "pow" THEN pow_backward(h, n)
       ELSE IF fn = "tanh" THEN tanh_backward(h, n)
       ELSE h

\* ------------------------------------------------------------ the client
NoCall == [call |-> None, self |-> 0, other |-> Float(0), out |-> 0]

\* the program is a client that calls the operations of Value one by one
Client == [at |-> "client", epoch |-> 0, parameters |-> <<>>, xs |-> <<>>, loss |-> 0]

Init ==
    /\ heap = <<>>
    /\ pc = "idle"
    /\ self = 0
    /\ topo = <<>>
    /\ visited = {}
    /\ stack = <<>>
    /\ i = 0
    /\ calls = 0
    /\ before = <<>>
    /\ ran = <<>>
    /\ ret = NoCall
    /\ main = Client

\* The client builds the graph first; `new` objects must fit the bound.
Building(new) ==
    main.at = "client" /\ pc = "idle" /\ calls = 0 /\ Len(heap) + new <= MaxNodes

Returned(r, call, slf, other) ==
    /\ heap' = r.heap
    /\ ret' = [call |-> call, self |-> slf, other |-> other, out |-> r.out]
    /\ UNCHANGED <<pc, self, topo, visited, stack, i, calls, before, ran, main>>

\* Value(v)
Leaf ==
    /\ Building(1)
    /\ \E v \in Vals :
          Returned(Promote(heap, Float(v)), "Value", 0, Float(v))

\* a + b
Add ==
    /\ Building(1)
    /\ \E a \in Ids, b \in Ids :
          Returned(__add__(heap, a, Ref(b)), "__add__", a, Ref(b))

\* a * b
Mul ==
    /\ Building(1)
    /\ \E a \in Ids, b \in Ids :
          Returned(__mul__(heap, a, Ref(b)), "__mul__", a, Ref(b))

\* abs(a)
Abs ==
    /\ Building(1)
    /\ \E a \in Ids :
          Returned(__abs__(heap, a), "__abs__", a, Float(0))

\* ---------------------------------------------------------- Value.backprop
Grads(h) == [n \in 1..Len(h) |-> h[n].grad]

\* variant of enter_backprop: the root's grad is accumulated (+= 1.0) instead of set
enter_backprop_accumulating(r) ==
    /\ heap' = [heap EXCEPT ![r].grad = @ + 1]
    /\ self' = r
    /\ visited' = {r}
    /\ stack' = <<[v |-> r, todo |-> heap[r].children]>>
    /\ before' = Grads(heap)
    /\ topo' = <<>>
    /\ ran' = <<>>
    /\ pc' = "build_topo"
    /\ UNCHANGED <<i, calls, ret>>

\* r.backprop() is entered: self.grad = 1.0, topo = [], visited = set(), and the
\* entry of build_topo(self), which finds self unvisited and starts its for loop
enter_backprop(r) ==
    /\ heap' = [heap EXCEPT ![r].grad = 1]
    /\ self' = r
    /\ visited' = {r}
    /\ stack' = <<[v |-> r, todo |-> heap[r].children]>>
    /\ before' = Grads(heap)
    /\ topo' = <<>>
    /\ ran' = <<>>
    /\ pc' = "build_topo"
    /\ UNCHANGED <<i, calls, ret>>

\* The client calls r.backprop(), and calls it again on the same root.  The
\* root is the Value built last: a root built earlier reaches, in an acyclic
\* graph, only Values built before it, a case met before the later ones exist.
backprop ==
    /\ main.at = "client"
    /\ pc = "idle"
    /\ calls < MaxCalls
    /\ \E r \in {Len(heap)} \ {0} :
          enter_backprop(r)
    /\ UNCHANGED main

Top == stack[Len(stack)]

\* variant of build_topo_for: build_topo without its `if v not in visited`
build_topo_for_unguarded ==
    /\ pc = "build_topo"
    /\ stack # <<>>
    /\ \E c \in Top.todo :
          /\ stack' = Append([stack EXCEPT ![Len(stack)].todo = @ \ {c}],
                             [v |-> c, todo |-> heap[c].children])
          /\ visited' = visited \cup {c}
    /\ UNCHANGED <<heap, pc, self, topo, i, calls, before, ran, ret, main>>

\* One iteration of `for c in v.children: build_topo(c)`: the set yields its
\* elements in an order the program does not control; the call returns at once
\* when c is visited, and otherwise marks c and starts c's own loop.
build_topo_for ==
    /\ pc = "build_topo"
    /\ stack # <<>>
    /\ \E c \in Top.todo :
          LET rest == [stack EXCEPT ![Len(stack)].todo = @ \ {c}]
          IN IF c \in visited
             THEN /\ stack' = rest
                  /\ UNCHANGED visited
             ELSE /\ stack' = Append(rest, [v |-> c, todo |-> heap[c].children])
                  /\ visited' = visited \cup {c}
    /\ UNCHANGED <<heap, pc, self, topo, i, calls, before, ran, ret, main>>

\* The loop of the innermost build_topo is exhausted: topo.append(v) and return;
\* when the outermost call returns, `for n in reversed(topo)` starts.
build_topo_append ==
    /\ pc = "build_topo"
    /\ stack # <<>>
    /\ Top.todo = {}
    /\ topo' = Append(topo, Top.v)
    /\ stack' = SubSeq(stack, 1, Len(stack) - 1)
    /\ IF Len(stack) = 1
       THEN pc' = "reversed" /\ i' = Len(topo')
       ELSE UNCHANGED <<pc, i>>
    /\ UNCHANGED <<heap, self, visited, calls, before, ran, ret, main>>

\* One iteration of `for n in reversed(topo): n.backward()`
backward_step ==
    /\ pc = "reversed"
    /\ i >= 1
    /\ heap' = backward(heap, topo[i])
    /\ ran' = Append(ran, topo[i])
    /\ i' = i - 1
    /\ UNCHANGED <<pc, self, topo, visited, stack, calls, before, ret, main>>

\* backprop returns: its locals are gone
backprop_return ==
    /\ pc = "reversed"
    /\ i = 0
    /\ pc' = "idle"
    /\ calls' = calls + 1
    /\ topo' = <<>>
    /\ visited' = {}
    /\ ran' = <<>>
    /\ UNCHANGED <<heap, self, stack, i, before, ret, main>>

\* a client that builds a graph of leaves, adds and multiplies
Next ==
    \/ Leaf
    \/ Add
    \/ Mul
    \/ backprop
    \/ build_topo_for
    \/ build_topo_append
    \/ backward_step
    \/ backprop_return

Spec == Init /\ [][Next]_vars

\* a client that also takes absolute values
NextAbs ==
    \/ Leaf
    \/ Add
    \/ Mul
    \/ Abs
    \/ backprop
    \/ build_topo_for
    \/ build_topo_append
    \/ backward_step
    \/ backprop_return

SpecAbs == Init /\ [][NextAbs]_vars

\* ------------------------------------------------- graph notions for the claims
RECURSIVE ReachFrom(_)
ReachFrom(S) ==
    LET N == S \cup UNION {heap[n].children : n \in S}
    IN IF N = S THEN S ELSE ReachFrom(N)

\* the nodes backprop(r) can reach: r and its descendants
Reach(r) == ReachFrom({r})

Acyclic == \A n \in Ids : n \notin ReachFrom(heap[n].children)

Range(s) == {s[k] : k \in 1..Len(s)}

NoDuplicates(s) == \A j, k \in 1..Len(s) : s[j] = s[k] => j = k

Pos(s, n) == CHOOSE k \in 1..Len(s) : s[k] = n

Built(r, fns) == \A n \in Reach(r) : heap[n].backward.fn \in fns

\* d r / d n by the forward chain rule over the expression r denotes
RECURSIVE TotalDeriv(_, _)
TotalDeriv(r, n) ==
    IF r = n THEN 1
    ELSE LET b == heap[r].backward
         IN IF b.fn = "add" THEN TotalDeriv(b.self, n) + TotalDeriv(b.other, n)
            ELSE IF b.fn = "mul"
                 THEN heap[b.other].val * TotalDeriv(b.self, n)
                      + heap[b.self].val * TotalDeriv(b.other, n)
            ELSE 0

\* the lengths of the paths from r down to n
RECURSIVE Depths(_, _)
Depths(r, n) ==
    IF r = n THEN {0}
    ELSE {d + 1 : d \in UNION {Depths(c, n) : c \in heap[r].children}}

FirstCallDone == pc = "idle" /\ calls = 1 /\ \A n \in Ids : before[n] = 0

SecondCallDone == pc = "idle" /\ calls = 2

\* ---------------------------------------------------------------- C1
\* C1: on an acyclic graph of leaves, adds and multiplies whose grads are all 0,
\* one backprop on a root leaves the root's grad at 1 and every other reachable
\* node's grad equal to the total derivative of the root with respect to it,
\* summed over all paths.
C1_TotalDerivative ==
    (FirstCallDone /\ Built(self, {None, "add", "mul"}))
        => /\ heap[self].grad = 1
           /\ \A n \in Reach(self) \ {self} : heap[n].grad = TotalDeriv(self, n)

\* a node used by two different nodes of the graph got more than one contribution
C1_Witness ==
    /\ FirstCallDone
    /\ Built(self, {None, "add", "mul"})
    /\ \E x, p, q \in Reach(self) :
          /\ p # q
          /\ x \in heap[p].children \cap heap[q].children
          /\ heap[p].backward.fn = "mul"
          /\ heap[x].grad > 1

\* ---------------------------------------------------------------- C2
\* C2 as stated: a second backprop on the same root, with no zeroing in between,
\* doubles the grad of every reachable node, the root included.
C2_Doubles ==
    SecondCallDone => \A n \in Reach(self) : heap[n].grad = 2 * before[n]

\* C2 as amended: on a graph of leaves, adds and multiplies, the second call
\* leaves the root's grad at 1, and a node whose paths from the root all have
\* d edges ends with (d + 1) times its grad after the first call; so only the
\* nodes one edge below the root are doubled.
C2_SecondCall ==
    (SecondCallDone /\ Built(self, {None, "add", "mul"}))
        => /\ heap[self].grad = 1
           /\ \A n \in Reach(self) : \A d \in 0..Len(heap) :
                 Depths(self, n) = {d} => heap[n].grad = (d + 1) * before[n]

C2_Witness ==
    /\ SecondCallDone
    /\ Built(self, {None, "add", "mul"})
    /\ \E m, n \in Reach(self) :
          /\ Depths(self, m) = {1}
          /\ heap[m].grad = 2 * before[m]
          /\ Depths(self, n) = {2}
          /\ before[n] # 0
          /\ heap[n].grad = 3 * before[n]

\* ---------------------------------------------------------------- C3
\* C3: on an acyclic graph the list topo holds every node reachable from the
\* root exactly once, each child before each of its parents; so the reverse
\* pass invokes every reachable node's backward exactly once (when the loop is
\* over) and never before the backward of a node that uses it.
C3_TopologicalOrder ==
    (pc = "reversed" /\ Acyclic)
        => /\ Range(topo) = Reach(self)
           /\ NoDuplicates(topo)
           /\ \A p \in Reach(self) : \A c \in heap[p].children :
                 Pos(topo, c) < Pos(topo, p)
           /\ NoDuplicates(ran)
           /\ \A k \in 1..Len(ran) : \A p \in Reach(self) :
                 ran[k] \in heap[p].children
                     => \E j \in 1..(k - 1) : ran[j] = p
           /\ i = 0 => Range(ran) = Reach(self)

\* the reverse pass is over on a graph where a node is reached along two paths
C3_Witness ==
    /\ pc = "reversed"
    /\ i = 0
    /\ Len(ran) >= 4
    /\ \E x, p, q \in Reach(self) :
          p # q /\ x \in heap[p].children \cap heap[q].children

\* ---------------------------------------------------------------- C4
\* C4: when the backward rule of an abs node runs, with g the abs node's grad,
\* the operand's grad becomes g if the operand's value is positive and -g if
\* it is negative.
C4_AbsRule ==
    [][(pc = "reversed" /\ i >= 1 /\ i' = i - 1
            /\ heap[topo[i]].backward.fn = "abs")
        => LET a == heap[topo[i]].backward.self
               g == heap[topo[i]].grad
           IN /\ heap[a].val > 0 => heap'[a].grad = g
              /\ heap[a].val < 0 => heap'[a].grad = -g]_vars

\* ---------------------------------------------------------------- C10
\* the elements of a set of references, in ascending order
RECURSIVE Ascending(_)
Ascending(S) ==
    IF S = {} THEN <<>>
    ELSE LET m == CHOOSE x \in S : \A y \in S : x <= y
         IN <<m>> \o Ascending(S \ {m})

\* build_topo run with every children set iterated in ascending order
RECURSIVE VisitAscending(_, _), VisitAllAscending(_, _)
VisitAscending(v, st) ==
    IF v \in st.visited THEN st
    ELSE LET st1 == VisitAllAscending(Ascending(heap[v].children),
                                      [st EXCEPT !.visited = @ \cup {v}])
         IN [st1 EXCEPT !.topo = Append(@, v)]

VisitAllAscending(cs, st) ==
    IF cs = <<>> THEN st
    ELSE VisitAllAscending(Tail(cs), VisitAscending(Head(cs), st))

RECURSIVE RunReversed(_, _, _)
RunReversed(h, order, k) ==
    IF k = 0 THEN h ELSE RunReversed(backward(h, order[k]), order, k - 1)

\* the grads one backprop(r) leaves when started from the grads `before`
\* and iterating every children set in ascending order
AscendingGrads(r) ==
    LET h0 == [n \in Ids |-> [heap[n] EXCEPT !.grad = IF n = r THEN 1 ELSE before[n]]]
        order == VisitAscending(r, [topo |-> <<>>, visited |-> {}]).topo
    IN Grads(RunReversed(h0, order, Len(order)))

\* C10: on a graph of leaves, adds, multiplies and abs nodes whose grads are all 0,
\* the grads backprop leaves do not depend on the order in which the children
\* sets are iterated: they are those of the run that iterates them in ascending
\* order, whatever order this run took.
C10_OrderIndependent ==
    (FirstCallDone /\ Built(self, {None, "add", "mul", "abs"}))
        => Grads(heap) = AscendingGrads(self)

\* ---------------------------------------------------------------- C6
\* `children` is a plain mutable set: a client can add to it after construction.
\* v.children.add(c) for a c that already uses v, which closes a cycle; the
\* client does it once, on a graph that has none.
children_add ==
    /\ Building(0)
    /\ Acyclic
    /\ \E v \in Ids, c \in Ids :
          /\ v \in Reach(c)
          /\ heap' = [heap EXCEPT ![v].children = @ \cup {c}]
    /\ UNCHANGED <<pc, self, topo, visited, stack, i, calls, before, ran, ret, main>>

\* Value(1.0): the traversal never reads val, so one leaf value is enough here
Unit ==
    /\ Building(1)
    /\ Returned(Promote(heap, Float(1)), "Value", 0, Float(1))

NextCyclic ==
    \/ Unit
    \/ Add
    \/ children_add
    \/ backprop
    \/ build_topo_for
    \/ build_topo_append
    \/ backward_step
    \/ backprop_return

\* A call of backprop runs to completion: the program has one thread and
\* nothing preempts it, so every enabled step of the call is eventually taken.
Running ==
    \/ build_topo_for
    \/ build_topo_append
    \/ backward_step
    \/ backprop_return

SpecCyclic == Init /\ [][NextCyclic]_vars /\ WF_vars(Running)

OnCycle(n) == n \in ReachFrom(heap[n].children)

\* C6 as stated, its second half: the traversal completes only on an acyclic
\* graph (on a graph with a cycle below the root it never gets to the reverse pass).
C6_CompletesOnlyIfAcyclic ==
    pc = "reversed" => \A n \in Reach(self) : ~OnCycle(n)

\* what is left to do of a call of backprop: the elements the for loops of
\* build_topo still have to yield (those of the running activations, and those
\* of the nodes not visited yet, each of which also costs a call and an append),
\* then the iterations of the reverse loop, then the return
Pending(S, f(_)) == Cardinality(UNION {{<<x, c>> : c \in f(x)} : x \in S})

children_of(n) == heap[n].children

todo_of(k) == stack[k].todo

Variant ==
    IF pc = "idle" THEN 0
    ELSE IF pc = "reversed" THEN i + 1
    ELSE Len(heap) + 2
         + Pending(Ids \ visited, children_of) + 2 * Cardinality(Ids \ visited)
         + Pending(1..Len(stack), todo_of) + Len(stack)

\* C6 as amended: the traversal terminates on every finite graph, with or
\* without a cycle: build_topo never nests deeper than the number of nodes,
\* inside a call a step is always possible, and every step of the call
\* decreases Variant, which is never negative; so the call returns.
C6_Terminates ==
    /\ [](Len(stack) <= Len(heap))
    /\ [](pc # "idle" => ENABLED Running)
    /\ [][pc # "idle" => (Variant' < Variant /\ Variant' >= 0)]_vars

\* a backprop has returned on a graph with a cycle of several nodes below the root
C6_Witness ==
    /\ pc = "idle"
    /\ calls >= 1
    /\ \E n \in Reach(self) : OnCycle(n) /\ n \notin heap[n].children
    /\ Cardinality(Reach(self)) >= 3

\* ------------------------------------------- the other builders, and labels
\* Value(v, label)
LabelledLeaf ==
    /\ Building(1)
    /\ \E v \in Vals, l \in Labels :
          Returned([heap |-> Append(heap, Value(v, l, {}, None)), out |-> Len(heap) + 1],
                   "Value", 0, Float(v))

\* a | l, on a Value that has no label yet
Or ==
    /\ Building(0)
    /\ \E a \in Ids, l \in Labels :
          /\ heap[a].label = None
          /\ Returned(__or__(heap, a, l), "__or__", a, Float(0))

\* a ** k
Pow ==
    /\ Building(1)
    /\ \E a \in Ids, k \in Exponents :
          Returned(__pow__(heap, a, k), "__pow__", a, Float(k))

\* a - s with s a float
Sub ==
    /\ Building(2)
    /\ \E a \in Ids, s \in Floats :
          Returned(__sub__(heap, a, Float(s)), "__sub__", a, Float(s))

\* a - b with b a Value
SubValue ==
    /\ Building(3)
    /\ \E a \in Ids, b \in Ids :
          Returned(__sub__(heap, a, Ref(b)), "__sub__", a, Ref(b))

\* s - a with s a float
RSub ==
    /\ Building(2)
    /\ \E a \in Ids, s \in Floats :
          Returned(__rsub__(heap, a, Float(s)), "__rsub__", a, Float(s))

NextOps ==
    \/ Leaf
    \/ Or
    \/ Add
    \/ Mul
    \/ Abs
    \/ Pow
    \/ Sub
    \/ SubValue
    \/ RSub

SpecOps == Init /\ [][NextOps]_vars

\* ---------------------------------------------------------------- C5
\* C5: `a - s` returns a node of value a.val - s, and `s - a` a node of value
\* s - a.val, for every node a and float s.
C5_Subtraction ==
    /\ (ret.call = "__sub__" /\ ~ret.other.isValue)
          => heap[ret.out].val = heap[ret.self].val - ret.other.x
    /\ ret.call = "__rsub__"
          => heap[ret.out].val = ret.other.x - heap[ret.self].val

\* ---------------------------------------------------------------- C9
\* the argument `mod` of recompute: None, or a dict from labels to floats
NoMod == [isNone |-> TRUE, dict |-> <<>>]
Mod(label, x) == [isNone |-> FALSE, dict |-> [l \in {label} |-> x]]

Returns(x) == [raised |-> None, val |-> x]
Raises(e) == [raised |-> e, val |-> 0]

RECURSIVE Sum(_, _), Prod(_, _)
Sum(f, S) == IF S = {} THEN 0
             ELSE LET x == CHOOSE y \in S : TRUE IN f[x] + Sum(f, S \ {x})
Prod(f, S) == IF S = {} THEN 1
              ELSE LET x == CHOOSE y \in S : TRUE IN f[x] * Prod(f, S \ {x})

\* Value.recompute.  recomputed_children has one entry per element of the set
\* self.children; an exception raised for a child is raised for self.  Only
\* the "pow" branch reads the entries by position, and it is reached with two
\* children only: they are then taken in ascending order of reference.
RECURSIVE recompute(_, _)
recompute(slf, mod) ==
    LET v == heap[slf]
        new_val == IF mod.isNone \/ v.label \notin DOMAIN mod.dict
                   THEN v.val ELSE mod.dict[v.label]
        rc == [c \in v.children |-> recompute(c, mod)]
        n == Cardinality(v.children)
        vals == [c \in v.children |-> rc[c].val]
    IN IF v.op = None THEN Returns(new_val)
       ELSE IF \E c \in v.children : rc[c].raised # None
            THEN Raises("AssertionError")
       ELSE IF v.op = "add" THEN Returns(Sum(vals, v.children))
       ELSE IF v.op = "mul" THEN Returns(Prod(vals, v.children))
       ELSE IF v.op = "abs"
            THEN IF n # 0 THEN Raises("AssertionError")
                 ELSE Returns(IF new_val > 0 THEN 1 ELSE IF new_val < 0 THEN -1 ELSE 0)
       ELSE IF v.op = "pow"
            THEN IF n # 2 THEN Raises("AssertionError")
                 ELSE LET cs == Ascending(v.children)
                      IN Returns((vals[cs[2]] - 1) * vals[cs[1]])
       ELSE IF v.op = "tanh"
            THEN IF n # 1 THEN Raises("AssertionError") ELSE Returns(tanh(v.val))
       ELSE Raises("unmodelled")

\* C9: for every node built with add, multiply, power and abs, recompute with
\* no perturbation (mod None, or a dict naming no label of the graph) raises
\* nothing and returns the node's current val.
C9_RecomputeIsVal ==
    \A n \in Ids :
        /\ recompute(n, NoMod) = Returns(heap[n].val)
        /\ recompute(n, Mod("unused", 7)) = Returns(heap[n].val)

\* ---------------------------------------------------------------- C7
\* Value.get_descendants: the union, over the children c, of {c} and c's descendants
RECURSIVE get_descendants(_)
get_descendants(slf) ==
    UNION {{c} \cup get_descendants(c) : c \in heap[slf].children}

\* the orders in which a set can be enumerated
Enumerations(S) ==
    {e \in [1..Cardinality(S) -> S] : \A j, k \in DOMAIN e : e[j] = e[k] => j = k}

\* the key grad_dict gives the element d met at position k (from 1) of the
\* enumeration: `d.label if d.label else str(i)`, with i counted from 0
Key(k, d) ==
    IF heap[d].label # None /\ heap[d].label # "" THEN heap[d].label ELSE ToString(k - 1)

\* Value.grad_dict, the set of descendants being enumerated as e: a dict
\* comprehension, in which a later item replaces an earlier one of the same key
grad_dict(slf, e) ==
    LET keys == {Key(k, e[k]) : k \in DOMAIN e}
        last(key) == CHOOSE k \in DOMAIN e :
                        /\ Key(k, e[k]) = key
                        /\ \A j \in DOMAIN e : Key(j, e[j]) = key => j <= k
    IN [key \in keys |-> heap[e[last(key)]].grad]

NextLabels ==
    \/ Leaf
    \/ LabelledLeaf
    \/ Mul
    \/ backprop
    \/ build_topo_for
    \/ build_topo_append
    \/ backward_step
    \/ backprop_return

SpecLabels == Init /\ [][NextLabels]_vars

\* C7: r.grad_dict holds one entry per distinct descendant of r, under the
\* descendant's label or else its positional key, and the entry's value is
\* that descendant's current grad, however the set of descendants is enumerated.
C7_GradDict ==
    pc = "idle" =>
        \A r \in Ids : \A e \in Enumerations(get_descendants(r)) :
            LET gd == grad_dict(r, e)
            IN /\ Cardinality(DOMAIN gd) = Cardinality(get_descendants(r))
               /\ \A k \in DOMAIN e : gd[Key(k, e[k])] = heap[e[k]].grad

\* ---------------------------------------------------------------- C8
\* The training program, t.py's main, at its smallest: MLP(1, 1, 0, 1), which
\* is layer_in and layer_out of one neuron each, and one sample of one input.
\* The heap after `xs = ...` and `net = MLP(...)`: the input, then w and b of
\* the neuron of layer_in, then w and b of the neuron of layer_out.
lr == 1    \* step's lr, in the model's integer unit

InitTrain ==
    /\ \E pv \in [1..4 -> ParamVals] :
          heap = <<Value(2, None, {}, None)>>
                 \o [k \in 1..4 |-> Value(pv[k], None, {}, None)]
    /\ main = [at |-> "for", epoch |-> 0, parameters |-> <<2, 3, 4, 5>>,
               xs |-> <<1>>, loss |-> 0]
    /\ pc = "idle"
    /\ self = 0
    /\ topo = <<>>
    /\ visited = {}
    /\ stack = <<>>
    /\ i = 0
    /\ calls = 0
    /\ before = <<>>
    /\ ran = <<>>
    /\ ret = NoCall

\* Neuron.__call__ for one input: sum((w * x,), self.b).tanh()
Neuron_call(h, w, b, x) ==
    LET wx == __mul__(h, w, Ref(x))
        s == __add__(wx.heap, b, Ref(wx.out))
    IN Value_tanh(s.heap, s.out)

\* MLP.__call__: xs = layer(xs) for layer_in, then for layer_out
MLP_call(h, parameters, x) ==
    LET hidden == Neuron_call(h, parameters[1], parameters[2], x)
    IN Neuron_call(hidden.heap, parameters[3], parameters[4], hidden.out)

\* MLP.compute_loss for one sample: sum(((y - pred) ** 2,)), whose start is
\* the int 0, so that the sum is Value.__radd__(term, 0)
compute_loss(h, y, pred) ==
    LET diff == __rsub__(h, pred, Float(y))
        sq == __pow__(diff.heap, diff.out, 2)
    IN __radd__(sq.heap, sq.out, Float(0))

\* main, lines 16 to 18: the forward pass, the loss, and `diffs`
forward ==
    /\ main.at = "for"
    /\ pc = "idle"
    /\ LET preds == MLP_call(heap, main.parameters, main.xs[1])
           loss == compute_loss(preds.heap, 1, preds.out)
           diffs == __rsub__(loss.heap, preds.out, Float(1))
       IN /\ heap' = diffs.heap
          /\ main' = [main EXCEPT !.at = "step", !.loss = loss.out]
    /\ UNCHANGED <<pc, self, topo, visited, stack, i, calls, before, ran, ret>>

\* MLP.step is entered: loss.backprop()
step ==
    /\ main.at = "step"
    /\ pc = "idle"
    /\ enter_backprop(main.loss)
    /\ main' = [main EXCEPT !.at = "in step"]

\* `for p in self.parameters: assert p.grad; p.val -= lr * p.grad`
RECURSIVE update(_, _, _)
update(h, ps, k) ==
    IF k > Len(ps) THEN [heap |-> h, raised |-> None]
    ELSE IF h[ps[k]].grad = 0 THEN [heap |-> h, raised |-> "AssertionError"]
    ELSE update([h EXCEPT ![ps[k]].val = @ - lr * h[ps[k]].grad], ps, k + 1)

\* MLP.zero_grad: p.grad = 0 for every parameter; main never calls it
zero_grad(h, ps) == [n \in 1..Len(h) |-> IF n \in Range(ps) THEN [h[n] EXCEPT !.grad = 0] ELSE h[n]]

\* loss.backprop() has returned: the rest of step, and the end of the loop body
step_update ==
    /\ main.at = "in step"
    /\ pc = "idle"
    /\ LET u == update(heap, main.parameters, 1)
       IN /\ heap' = u.heap
          /\ main' = [main EXCEPT
                        !.at = IF u.raised # None THEN u.raised
                               ELSE IF main.epoch + 1 < n_epochs THEN "for" ELSE "done",
                        !.epoch = IF u.raised # None THEN @ ELSE @ + 1]
    /\ UNCHANGED <<pc, self, topo, visited, stack, i, calls, before, ran, ret>>

NextTrain ==
    \/ forward
    \/ step
    \/ build_topo_for
    \/ build_topo_append
    \/ backward_step
    \/ backprop_return
    \/ step_update

SpecTrain == InitTrain /\ [][NextTrain]_vars

\* C8: whenever an epoch's backward pass begins, every parameter's grad is 0
\* (the grads were reset since the previous step).
C8_GradsResetBetweenSteps ==
    main.at = "in step" => \A k \in 1..Len(main.parameters) : before[main.parameters[k]] = 0
====
